---- MODULE Spec2Model ----
(***************************************************************************)
(* A model of nb_mypy (src/nb_mypy/__init__.py): the IPython extension     *)
(* that type-checks every submitted cell against a history buffer.         *)
(*                                                                         *)
(* Texts (a cell, the history buffer self.mypy_cells) are sequences of     *)
(* source items: one item is one top-level statement, or one blank/comment *)
(* line, together with the number of text lines it occupies.  ast.parse    *)
(* turns a text into the sequence of its statements, astor.to_source turns *)
(* statements back into text with astor's own line layout.                 *)
(***************************************************************************)
EXTENDS Integers, Sequences, FiniteSets, TLC

\* ------------------------------------------------------------------ bounds

\* Number of cells submitted in one session.
MaxCells == 3

\* ----------------------------------------------------------- source items

Identifiers == {"a", "f"}

\* One source item.  kind: the statement's AST class ("Blank": a blank or
\* comment line, "Magic": an IPython line starting with % ! ? or ending in ?,
\* "CellMagic": a first line starting with %%, "Bad": text that is no Python,
\* "IndentedMagic": a Magic line with white space before its sigil,
\* "IndentedPass": what comment_magic makes of it, "Match": a match
\* statement, for which astor has no handler).
\* targets: identifiers bound through Name/Tuple targets; roots: the root
\* identifiers of Attribute/Subscript targets; name: the name of a def/class;
\* (of an Expr: "reveal_type" for a call of reveal_type, "" otherwise);
\* lines: text lines occupied; body: "full" or "pass" for a def, and for a
\* class "full" when its methods have their bodies;
\* fstring: the statement holds a construct astor does not render back to
\* valid source; garbled: the text of this item is such a rendering.
\* frag: ghost tag, the number of the cell whose text the item came from.
Item(kind, targets, roots, name, lines, body, fstring) ==
    [kind |-> kind, targets |-> targets, roots |-> roots, name |-> name,
     lines |-> lines, body |-> body, fstring |-> fstring, garbled |-> FALSE,
     frag |-> 0]

AssignStmt(ts)   == Item("Assign", ts, {}, "", 1, "none", FALSE)
AugAssignStmt(t) == Item("AugAssign", {t}, {}, "", 1, "none", FALSE)
AttrAssignStmt(r) == Item("Assign", {}, {r}, "", 1, "none", FALSE)
FStringAssign(t) == Item("Assign", {t}, {}, "", 1, "none", TRUE)
AnnAssignStmt(t) == Item("AnnAssign", {t}, {}, "", 1, "none", FALSE)
FunctionDef(n)   == Item("FunctionDef", {}, {}, n, 3, "full", FALSE)
AsyncFunctionDef(n) == Item("AsyncFunctionDef", {}, {}, n, 2, "full", FALSE)
ClassDef(n)      == Item("ClassDef", {}, {}, n, 2, "full", FALSE)
ExprStmt         == Item("Expr", {}, {}, "", 1, "none", FALSE)
RevealStmt       == Item("Expr", {}, {}, "reveal_type", 1, "none", FALSE)
PassStmt         == Item("Pass", {}, {}, "", 1, "none", FALSE)
BlankLine        == Item("Blank", {}, {}, "", 1, "none", FALSE)
MagicLine        == Item("Magic", {}, {}, "", 1, "none", FALSE)
CellMagicLine    == Item("CellMagic", {}, {}, "", 1, "none", FALSE)
BadLine          == Item("Bad", {}, {}, "", 1, "none", FALSE)
IndentedMagicLine == Item("IndentedMagic", {}, {}, "", 1, "none", FALSE)
MatchStmt        == Item("Match", {}, {}, "", 3, "none", FALSE)

\* The raw cells a user submits.
Cells ==
    { << AssignStmt({"a"}) >>,                      \* a = 1
      << AssignStmt({"a", "f"}) >>,                 \* a, f = 1, 2
      << AnnAssignStmt("a") >>,                     \* a: str = "x"
      << FunctionDef("f") >>,                       \* def f(x): ... (3 lines)
      << ClassDef("a"), AugAssignStmt("f") >>,      \* class a: ... / f += 1
      << RevealStmt, AnnAssignStmt("f") >>,         \* reveal_type(a) / f: int = 1
      << BlankLine, AttrAssignStmt("a") >>,         \* # c / a.x = 1
      << FStringAssign("f"), AssignStmt({"a"}) >>,  \* f = f"..." / a = 1
      << MagicLine >>,                              \* !ls
      << BadLine >>,                                \* a = = 1
      << IndentedMagicLine >>,                      \*  !ls (after a blank)
      << MatchStmt, AssignStmt({"a"}) >>,           \* match a: ... / a = 1
      << CellMagicLine, ExprStmt >> }               \* %%time / print(a)

\* ------------------------------------------------------------- text helpers

RECURSIVE LineCount(_)
\* Number of "\n" in a text: every item ends its last line with "\n".
LineCount(text) ==
    IF text = << >> THEN 0
    ELSE Head(text).lines + LineCount(Tail(text))

RECURSIVE MapSeq(_, _)
MapSeq(Op(_), s) ==
    IF s = << >> THEN << >> ELSE << Op(Head(s)) >> \o MapSeq(Op, Tail(s))

\* ------------------------------------------------- ast.parse, astor.to_source

\* ast.parse(text) raises SyntaxError: some item is no Python.
SyntaxError(text) ==
    \E i \in 1..Len(text) :
        \/ text[i].kind \in {"Bad", "Magic", "CellMagic"}
        \/ text[i].kind \in {"IndentedMagic", "IndentedPass"}
        \/ text[i].garbled

\* ast.parse(text).body: the statements of the text; blank and comment lines
\* are no part of the tree.
ast_parse(text) == SelectSeq(text, LAMBDA it : it.kind # "Blank")

\* The text astor writes for one statement: assignments, expressions and pass
\* on one line; a def or class after two blank lines, its header on one line
\* and its body below.  A construct astor cannot render comes out garbled.
to_source_stmt(node) ==
    [node EXCEPT
        !.lines = IF node.kind \in {"FunctionDef", "AsyncFunctionDef", "ClassDef"}
                  THEN 3 + (IF node.body = "pass" THEN 1 ELSE node.lines - 1)
                  ELSE 1,
        !.garbled = node.fstring]

\* astor.to_source(module) raises: the tree holds a node astor has no
\* handler for.
to_source_raises(body) == \E i \in 1..Len(body) : body[i].kind = "Match"

\* astor.to_source(module)
to_source(body) == MapSeq(to_source_stmt, body)

\* --------------------------------------------------- Names, NamesLister

\* Mutant of Names: the roots of attribute and subscript targets are
\* gathered whatever replace is.
Names_with_roots(node, replace) == node.targets \union node.roots

\* Names(replace) run over the targets of one assignment.
Names(node, replace) ==
    node.targets \union (IF replace THEN node.roots ELSE {})

NoNames == [var_names |-> {}, annotated_names |-> {}, classfunc_names |-> {}]

\* NamesLister(replace).visit(node) for one statement.
NamesLister_stmt(node, replace) ==
    CASE node.kind \in {"FunctionDef", "AsyncFunctionDef", "ClassDef"} ->
            [NoNames EXCEPT !.classfunc_names = {node.name}]
      [] node.kind \in {"Assign", "AugAssign"} ->
            [NoNames EXCEPT !.var_names = Names(node, replace)]
      [] node.kind = "AnnAssign" ->
            [NoNames EXCEPT !.annotated_names = Names(node, replace)]
      [] OTHER -> NoNames

RECURSIVE NamesLister(_, _)
\* NamesLister(replace).visit(module): generic_visit over the body.
NamesLister(body, replace) ==
    IF body = << >> THEN NoNames
    ELSE LET h == NamesLister_stmt(Head(body), replace)
             t == NamesLister(Tail(body), replace)
         IN  [var_names |-> h.var_names \union t.var_names,
              annotated_names |-> h.annotated_names \union t.annotated_names,
              classfunc_names |-> h.classfunc_names \union t.classfunc_names]

\* ---------------------------------------------------------------- Replacer

\* ast.Pass() put in the place of a statement (the ghost tag stays).
Pass(node) ==
    [node EXCEPT !.kind = "Pass", !.targets = {}, !.roots = {}, !.name = "",
                 !.lines = 1, !.body = "none", !.fstring = FALSE]

\* Mutant of visit_FunctionDef: a re-defined function is not replaced.
visit_FunctionDef_keep(node, known_classfunc) == [node EXCEPT !.body = "pass"]

\* Mutant of visit_FunctionDef: a function that is not replaced keeps its
\* body.
visit_FunctionDef_whole(node, known_classfunc) ==
    IF node.name \in known_classfunc THEN Pass(node) ELSE node

\* Replacer.visit_FunctionDef, visit_AsyncFunctionDef
visit_FunctionDef(node, known_classfunc) ==
    IF node.name \in known_classfunc THEN Pass(node)
    ELSE [node EXCEPT !.body = "pass"]

\* Replacer.visit_ClassDef
visit_ClassDef(node, known_classfunc) ==
    IF node.name \in known_classfunc THEN Pass(node) ELSE node

\* Replacer.visit_Assign, visit_AugAssign
visit_Assign(node, known_vars) ==
    IF NamesLister_stmt(node, TRUE).var_names \intersect known_vars # {}
    THEN Pass(node) ELSE node

\* Replacer.visit_AnnAssign
visit_AnnAssign(node, known_annotated) ==
    IF NamesLister_stmt(node, TRUE).annotated_names \intersect known_annotated # {}
    THEN Pass(node) ELSE node

\* Mutant of Replacer_visit: one purge set for all categories, as if the
\* three sets were merged.
Replacer_visit_merged(node, known_vars, known_annotated, known_classfunc) ==
    LET known == known_vars \union known_annotated \union known_classfunc
    IN  CASE node.kind \in {"FunctionDef", "AsyncFunctionDef"} ->
                visit_FunctionDef(node, known)
          [] node.kind = "ClassDef" -> visit_ClassDef(node, known)
          [] node.kind \in {"Assign", "AugAssign"} -> visit_Assign(node, known)
          [] node.kind = "AnnAssign" -> visit_AnnAssign(node, known)
          [] OTHER -> node

\* NodeTransformer.visit: dispatch on the class of the node.
Replacer_visit(node, known_vars, known_annotated, known_classfunc) ==
    CASE node.kind \in {"FunctionDef", "AsyncFunctionDef"} ->
            visit_FunctionDef(node, known_classfunc)
      [] node.kind = "ClassDef" -> visit_ClassDef(node, known_classfunc)
      [] node.kind \in {"Assign", "AugAssign"} -> visit_Assign(node, known_vars)
      [] node.kind = "AnnAssign" -> visit_AnnAssign(node, known_annotated)
      [] OTHER -> node

\* Replacer.visit_Module: drop the top-level pass and expression statements,
\* then visit what is left.
visit_Module(body, known_vars, known_annotated, known_classfunc) ==
    LET res == SelectSeq(body, LAMBDA st : st.kind \notin {"Pass", "Expr"})
        V(st) == Replacer_visit(st, known_vars, known_annotated, known_classfunc)
    IN  MapSeq(V, res)

\* ------------------------------------------------------------- fix_line_nr

\* Strings are sequences of one-character strings.
DigitChars == << "0", "1", "2", "3", "4", "5", "6", "7", "8", "9" >>

IsDigit(c) == \E i \in 1..10 : DigitChars[i] = c

\* \s of the regular expression
IsSpace(c) == c \in {" ", "\t"}

DigitValue(c) == (CHOOSE i \in 1..10 : DigitChars[i] = c) - 1

RECURSIVE int(_)
\* int(number) of a string of decimal digits
int(number) ==
    IF number = << >> THEN 0
    ELSE 10 * int(SubSeq(number, 1, Len(number) - 1))
         + DigitValue(number[Len(number)])

RECURSIVE str_nat(_)
str_nat(n) ==
    IF n < 10 THEN << DigitChars[n + 1] >>
    ELSE str_nat(n \div 10) \o << DigitChars[(n % 10) + 1] >>

\* str(n) of an integer
str(n) == IF n < 0 THEN << "-" >> \o str_nat(0 - n) ELSE str_nat(n)

\* "line\s[0-9]" starts at position p of s.
LineRefAt(s, p) ==
    /\ p >= 1
    /\ p + 5 <= Len(s)
    /\ SubSeq(s, p, p + 3) = << "l", "i", "n", "e" >>
    /\ IsSpace(s[p + 4])
    /\ IsDigit(s[p + 5])

\* Last position of the run of digits that starts at position p.
DigitsEnd(s, p) ==
    CHOOSE q \in p..Len(s) :
        /\ \A k \in p..q : IsDigit(s[k])
        /\ (q = Len(s) \/ ~IsDigit(s[q + 1]))

\* Mutant of fix_line_nr: the message is left with its absolute numbers.
fix_line_nr_absolute(line, offset) == line

\* Mutant of fix_line_nr: only the last "line N" is corrected, the text before
\* and after it is not searched again.
fix_line_nr_last_only(line, offset) ==
    LET starts == { p \in 1..Len(line) : LineRefAt(line, p) }
    IN  IF starts = {} THEN line
        ELSE LET p == CHOOSE x \in starts : \A y \in starts : y <= x
                 q == DigitsEnd(line, p + 5)
             IN  SubSeq(line, 1, p + 4)
                 \o str(int(SubSeq(line, p + 5, q)) - offset)
                 \o SubSeq(line, q + 1, Len(line))

RECURSIVE fix_line_nr(_, _)
\* re '(.*)(line\s)([0-9]+)(.*)': the greedy (.*) makes the first match
\* the one whose "line" starts last.
fix_line_nr(line, offset) ==
    LET starts == { p \in 1..Len(line) : LineRefAt(line, p) }
    IN  IF starts = {} THEN line
        ELSE LET p == CHOOSE x \in starts : \A y \in starts : y <= x
                 q == DigitsEnd(line, p + 5)
                 begin == SubSeq(line, 1, p - 1)
                 word == SubSeq(line, p, p + 4)
                 number == SubSeq(line, p + 5, q)
                 end == SubSeq(line, q + 1, Len(line))
             IN  fix_line_nr(begin, offset) \o word
                 \o str(int(number) - offset) \o fix_line_nr(end, offset)

\* ------------------------------------------------------------------- state

VARIABLES
    mypy_cells,            \* self.mypy_cells: the history buffer (a text)
    mypy_var_names,        \* self.mypy_var_names
    mypy_annotated_names,  \* self.mypy_annotated_names
    mypy_classfunc_names,  \* self.mypy_classfunc_names
    mypy_typecheck,        \* self.mypy_typecheck
    debug,                 \* self.debug
    additional_args,       \* self.additional_args
    ncells,                \* number of pre_run_cell events so far
    cell,                  \* info.raw_cell of the last event
    path,                  \* where the last run of a handler ended
    rewrite,               \* what clean_history did in the last run
    mypy_cells_length,     \* the local mypy_cells_length of the last run
    api_runs,              \* the calls of mypy.api.run made by the last run
    mypy_result,           \* what the last call of mypy.api.run returned
    log,                   \* the records the last run handed to self.logger
    executed,              \* what the host ran for the last event
    magic_line,            \* the line the last run of nb_mypy was given, in
                           \* the sessions that keep it
    api,                   \* the checker behind mypy.api.run
    arg,                   \* the arguments of a function called on its own
    ret,                   \* what that call returned
    subscribed,            \* type_check is registered for pre_run_cell
    script,                \* the form of the checker that is in use
    mypy_names,            \* self.mypy_names of typecheck.py
    host_runs              \* the cells the last call of a wrapper of run_cell
                           \* handed to the run_cell it wraps

vars == << mypy_cells, mypy_var_names, mypy_annotated_names,
           mypy_classfunc_names, mypy_typecheck, debug, additional_args,
           ncells, cell, path, rewrite, mypy_cells_length, api_runs,
           mypy_result, log, executed, magic_line, api, arg, ret,
           subscribed, script, mypy_names, host_runs >>

\* What only the startup scripts typecheck.py and nb-mypy.py use.
wrapped == << script, mypy_names, host_runs >>

checker == << mypy_cells, mypy_var_names, mypy_annotated_names,
              mypy_classfunc_names, additional_args >>

\* One record handed to the logger.  what: which call of the source logged
\* it; for an emitted diagnostic ("diag") line_nr and message are the parts
\* joined after "<cell>", and src is the ghost index of the checker's output
\* line it renders.
Record(level, what) ==
    [level |-> level, what |-> what, line_nr |-> 0, message |-> << >>, src |-> 0]

NoResult == [out |-> << >>, err |-> FALSE, status |-> 0, raised |-> FALSE]

NoReturn == [done |-> FALSE, value |-> << >>]

\* MypyIPython.__init__, as load_ipython_extension leaves it
InitSession ==
    /\ mypy_cells = << >>
    /\ mypy_var_names = {}
    /\ mypy_annotated_names = {}
    /\ mypy_classfunc_names = {}
    /\ mypy_typecheck = TRUE
    /\ debug = FALSE
    /\ additional_args = << >>
    /\ ncells = 0
    /\ cell = << >>
    /\ path = "loaded"
    /\ rewrite = "none"
    /\ mypy_cells_length = 0
    /\ api_runs = << >>
    /\ mypy_result = NoResult
    /\ log = << Record("info", "Version") >>
    /\ executed = << >>
    /\ magic_line = << >>
    /\ subscribed = TRUE
    /\ script = "nb_mypy"
    /\ mypy_names = {}
    /\ host_runs = << >>

Init ==
    /\ InitSession
    /\ api = "any"
    /\ arg = << >>
    /\ ret = NoReturn

\* ------------------------------------------------------------ preprocessing

\* Mutant of is_cell_magic: no cell is taken for a cell magic.
is_cell_magic_never(c) == FALSE

\* cell.startswith("%%")
is_cell_magic(c) == c # << >> /\ c[1].kind = "CellMagic"

\* comment_magic on the line(s) of one item: a line whose first non-blank
\* character is % ! ? (or whose last is ?) becomes "pass #...".
comment_magic(it) ==
    IF it.kind \in {"Magic", "CellMagic"} THEN [it EXCEPT !.kind = "Pass"]
    ELSE IF it.kind = "IndentedMagic" THEN [it EXCEPT !.kind = "IndentedPass"]
    ELSE it

\* cell_filter: comment_magic mapped over cell.split('\n'), joined by "\n"
cell_filter_of(c) == MapSeq(comment_magic, c)

\* ------------------------------------------------------------ clean_history

\* Mutant of updated: update(new) first, difference_update(remove) second.
updated_union_first(known, remove, new) == (known \union new) \ remove

\* difference_update(remove) followed by update(new)
updated(known, remove, new) == (known \ remove) \union new

\* Mutant of remove_var_of: only a plain re-assignment purges Variables.
remove_var_plain_only(new) == new.var_names \intersect mypy_var_names

remove_var_of(new) ==
    (new.var_names \union new.annotated_names \union new.classfunc_names)
        \intersect mypy_var_names

remove_annotated_of(new) ==
    (new.annotated_names \union new.classfunc_names)
        \intersect mypy_annotated_names

\* Mutant of remove_classfunc_of: only a new def or class purges Callables.
remove_classfunc_same_only(new) ==
    new.classfunc_names \intersect mypy_classfunc_names

remove_classfunc_of(new) ==
    (new.var_names \union new.annotated_names \union new.classfunc_names)
        \intersect mypy_classfunc_names

\* Mutant of clean_history: the history is parsed and written back by astor
\* for every cell, with or without names to purge.
clean_history_always(new) ==
    LET remove_var == remove_var_of(new)
        remove_annotated == remove_annotated_of(new)
        remove_classfunc == remove_classfunc_of(new)
    IN  IF SyntaxError(mypy_cells)
        THEN [cells |-> mypy_cells,
              var_names |-> mypy_var_names,
              annotated_names |-> mypy_annotated_names,
              classfunc_names |-> mypy_classfunc_names,
              log |-> << Record("error", "Syntax error in old cells") >>,
              rewrite |-> "abandoned"]
        ELSE [cells |-> to_source(visit_Module(ast_parse(mypy_cells),
                            remove_var, remove_annotated, remove_classfunc)),
              var_names |-> updated(mypy_var_names, remove_var, new.var_names),
              annotated_names |->
                  updated(mypy_annotated_names, remove_annotated, new.annotated_names),
              classfunc_names |->
                  updated(mypy_classfunc_names, remove_classfunc, new.classfunc_names),
              log |-> << >>,
              rewrite |-> "done"]

\* Mutant of clean_history: the history is rewritten without the guard for a
\* history that does not parse.
clean_history_unguarded(new) ==
    LET remove_var == remove_var_of(new)
        remove_annotated == remove_annotated_of(new)
        remove_classfunc == remove_classfunc_of(new)
        purge == remove_var # {} \/ remove_annotated # {} \/ remove_classfunc # {}
    IN  [cells |-> IF purge
                   THEN to_source(visit_Module(ast_parse(mypy_cells),
                            remove_var, remove_annotated, remove_classfunc))
                   ELSE mypy_cells,
         var_names |-> updated(mypy_var_names, remove_var, new.var_names),
         annotated_names |->
             updated(mypy_annotated_names, remove_annotated, new.annotated_names),
         classfunc_names |->
             updated(mypy_classfunc_names, remove_classfunc, new.classfunc_names),
         log |-> << >>,
         rewrite |-> IF purge THEN "done" ELSE "none"]

\* Mutant of clean_history: when the rewrite is abandoned the registries are
\* updated all the same.
clean_history_registers(new) ==
    LET remove_var == remove_var_of(new)
        remove_annotated == remove_annotated_of(new)
        remove_classfunc == remove_classfunc_of(new)
        purge == remove_var # {} \/ remove_annotated # {} \/ remove_classfunc # {}
    IN  IF purge /\ SyntaxError(mypy_cells)
        THEN [cells |-> mypy_cells,
              var_names |-> updated(mypy_var_names, remove_var, new.var_names),
              annotated_names |->
                  updated(mypy_annotated_names, remove_annotated, new.annotated_names),
              classfunc_names |->
                  updated(mypy_classfunc_names, remove_classfunc, new.classfunc_names),
              log |-> << Record("error", "Syntax error in old cells") >>,
              rewrite |-> "abandoned"]
        ELSE IF purge /\ to_source_raises(visit_Module(ast_parse(mypy_cells),
                                  remove_var, remove_annotated, remove_classfunc))
        THEN [cells |-> mypy_cells,
              var_names |-> mypy_var_names,
              annotated_names |-> mypy_annotated_names,
              classfunc_names |-> mypy_classfunc_names,
              log |-> << >>,
              rewrite |-> "raised"]
        ELSE [cells |-> IF purge
                        THEN to_source(visit_Module(ast_parse(mypy_cells),
                                 remove_var, remove_annotated, remove_classfunc))
                        ELSE mypy_cells,
              var_names |-> updated(mypy_var_names, remove_var, new.var_names),
              annotated_names |->
                  updated(mypy_annotated_names, remove_annotated, new.annotated_names),
              classfunc_names |->
                  updated(mypy_classfunc_names, remove_classfunc, new.classfunc_names),
              log |-> << >>,
              rewrite |-> IF purge THEN "done" ELSE "none"]

\* MypyIPython.clean_history: the buffer, the registries and the log records
\* it leaves.  rewrite: "none" (nothing to purge), "done", "abandoned" (the
\* history does not parse), "raised" (astor.to_source raised).
clean_history(new) ==
    LET remove_var == remove_var_of(new)
        remove_annotated == remove_annotated_of(new)
        remove_classfunc == remove_classfunc_of(new)
        purge == remove_var # {} \/ remove_annotated # {} \/ remove_classfunc # {}
    IN  IF purge /\ SyntaxError(mypy_cells)
        THEN [cells |-> mypy_cells,
              var_names |-> mypy_var_names,
              annotated_names |-> mypy_annotated_names,
              classfunc_names |-> mypy_classfunc_names,
              log |-> << Record("error", "Syntax error in old cells") >>,
              rewrite |-> "abandoned"]
        ELSE IF purge /\ to_source_raises(visit_Module(ast_parse(mypy_cells),
                                  remove_var, remove_annotated, remove_classfunc))
        THEN [cells |-> mypy_cells,
              var_names |-> mypy_var_names,
              annotated_names |-> mypy_annotated_names,
              classfunc_names |-> mypy_classfunc_names,
              log |-> << >>,
              rewrite |-> "raised"]
        ELSE [cells |-> IF purge
                        THEN to_source(visit_Module(ast_parse(mypy_cells),
                                 remove_var, remove_annotated, remove_classfunc))
                        ELSE mypy_cells,
              var_names |-> updated(mypy_var_names, remove_var, new.var_names),
              annotated_names |->
                  updated(mypy_annotated_names, remove_annotated, new.annotated_names),
              classfunc_names |->
                  updated(mypy_classfunc_names, remove_classfunc, new.classfunc_names),
              log |-> << >>,
              rewrite |-> IF purge THEN "done" ELSE "none"]

\* ----------------------------------------------------- offsets and checker

RECURSIVE split(_)
\* text.split('\n'): one piece per line, and the empty piece after the last
\* "\n".  A piece is written as the ghost tag of the item its line belongs to.
split(text) ==
    IF text = << >> THEN << 0 >>
    ELSE [k \in 1..Head(text).lines |-> Head(text).frag] \o split(Tail(text))

\* Mutant of length_of: the "- 1" for the empty piece after the last "\n"
\* is forgotten.
length_of_pieces(text) == Len(split(text))

\* len(self.mypy_cells.split('\n')) - 1
length_of(text) == Len(split(text)) - 1

\* Mutant of is_new: ">=" for ">".
is_new_or_equal(line_nr, offset) == line_nr >= offset

\* int(line_nr) > mypy_cells_length
is_new(line_nr, offset) == line_nr > offset

\* The cell's text as it stands in the buffer: tagged with the cell's number.
Tagged(text, n) == MapSeq(LAMBDA it : [it EXCEPT !.frag = n], text)

LineWord == << "l", "i", "n", "e", " " >>

\* Messages of the checker for a diagnostic on line n of a program: without a
\* line reference, referring to its own line, referring to line 1.
Message(kind, n) ==
    CASE kind = "plain" -> << ":", "x" >>
      [] kind = "self" -> << ":" >> \o LineWord \o str(n)
      [] kind = "first" -> LineWord \o str(1) \o << ";" >> \o LineWord \o str(n)

\* Standard output of the checker with one diagnostic for every line of the
\* program, and the closing summary line, which has no "<string>:N" in it.
\* marker: the line matches '(<[a-z]+>:)(\d+)(.*?)$'.
AllLines(program, kind) ==
    [n \in 1..LineCount(program) |->
        [marker |-> TRUE, line_nr |-> n, message |-> Message(kind, n)]]
    \o << [marker |-> FALSE, line_nr |-> 0, message |-> << "F" >>] >>

\* What mypy.api.run may do for a program: return (stdout, stderr, status),
\* or raise.  err: stderr is not empty.
MypyResults(program) ==
    { [out |-> << >>, err |-> FALSE, status |-> 0, raised |-> FALSE],
      [out |-> AllLines(program, "first"), err |-> TRUE, status |-> 1,
       raised |-> FALSE],
      [out |-> AllLines(program, "self"), err |-> FALSE, status |-> 2,
       raised |-> FALSE],
      [out |-> << >>, err |-> TRUE, status |-> 2, raised |-> FALSE],
      [out |-> << >>, err |-> FALSE, status |-> 0, raised |-> TRUE] }

RECURSIVE LineItems(_)
\* The statement every line of a text belongs to, whatever cell it came from.
LineItems(text) ==
    IF text = << >> THEN << >>
    ELSE [k \in 1..Head(text).lines |-> [Head(text) EXCEPT !.frag = 0]]
         \o LineItems(Tail(text))

\* Standard output of a checker that reports a line unless an earlier line of
\* the program reads the same: what it says of a line depends on the text
\* before the line.
NewLines(program) ==
    LET ls == LineItems(program)
        idx == [n \in 1..Len(ls) |-> n]
        sel == SelectSeq(idx, LAMBDA n : \A m \in 1..(n - 1) : ls[m] # ls[n])
    IN  MapSeq(LAMBDA n : [marker |-> TRUE, line_nr |-> n,
                           message |-> Message("self", n)], sel)
        \o << [marker |-> FALSE, line_nr |-> 0, message |-> << "F" >>] >>

\* The checkers that are functions of the program: "each_line" reports
\* every line, "new_lines" every line no earlier line equals.
DeterministicCheckers == { "each_line", "new_lines" }

\* mypy.api.run(args + ['-c', program]) with the checker in use: any outcome
\* for "any", the one result of the program for a deterministic checker.
api_run(program) ==
    CASE api = "any" -> MypyResults(program)
      [] api = "each_line" ->
            { [out |-> AllLines(program, "self"), err |-> FALSE, status |-> 1,
               raised |-> FALSE] }
      [] api = "new_lines" ->
            { [out |-> NewLines(program), err |-> FALSE, status |-> 1,
               raised |-> FALSE] }

\* A string of the command line is written as the sequence of its pieces:
\* words, blanks and tabs.
BaselineArgs ==
    << << "--ignore-missing-imports" >>, << "--allow-redefinition" >> >>

\* Mutant of api_args: the extra flags come before the baseline.
api_args_flags_first == additional_args \o BaselineArgs

\* The arguments of mypy.api.run before '-c' and the program.
api_args == BaselineArgs \o additional_args

\* Mutant of emitted: every diagnostic of the checker is logged, those of the
\* history too.
emitted_unfiltered(out, offset) ==
    LET idx == [i \in 1..Len(out) |-> i]
        sel == SelectSeq(idx, LAMBDA i : out[i].marker)
        R(i) == [Record("error", "diag") EXCEPT
                    !.line_nr = out[i].line_nr - offset,
                    !.message = fix_line_nr(out[i].message, offset),
                    !.src = i]
    IN  MapSeq(R, sel)

\* The records logged for the lines of the checker's standard output.
emitted(out, offset) ==
    LET idx == [i \in 1..Len(out) |-> i]
        sel == SelectSeq(idx, LAMBDA i : out[i].marker /\ is_new(out[i].line_nr, offset))
        R(i) == [Record("error", "diag") EXCEPT
                    !.line_nr = out[i].line_nr - offset,
                    !.message = fix_line_nr(out[i].message, offset),
                    !.src = i]
    IN  MapSeq(R, sel)

IfDebug(records) == IF debug THEN records ELSE << >>

\* ---------------------------------------------------------------- handlers

\* A run of type_check that ends before clean_history: nothing of the
\* checker's state is touched and mypy is not called.
Return(where, records) ==
    /\ path' = where
    /\ log' = records
    /\ rewrite' = "none"
    /\ mypy_cells_length' = 0
    /\ api_runs' = << >>
    /\ mypy_result' = NoResult
    /\ UNCHANGED << checker, mypy_typecheck, debug >>

\* Mutant of usage_fault: the status alone decides.
usage_fault_status_only(res) == res.status = 2

\* mypy_result[1] is not empty and mypy_result[2] == 2
usage_fault(res) == res.err /\ res.status = 2

\* Mutant of ExceptionHandler: the critical record is written in debug mode
\* only.
ExceptionHandler_debug_only ==
    IfDebug(<< Record("critical", "Error in type checker"),
               Record("debug", "Error was fatal") >>)

\* The handler of "except Exception" of type_check_cell.
ExceptionHandler ==
    << Record("critical", "Error in type checker") >>
    \o IfDebug(<< Record("debug", "Error was fatal") >>)

\* MypyIPython.type_check_cell from clean_history on, for a cell that parsed.
check_parsed_cell(cell_filter) ==
    LET new == NamesLister(ast_parse(cell_filter), FALSE)
        h == clean_history(new)
        offset == length_of(h.cells)
        program == h.cells \o Tagged(cell_filter, ncells + 1)
        args == api_args
        before == h.log
                \o IfDebug(<< Record("debug", "Program before typechecking"),
                              Record("debug", "Args passed to mypy API") >>)
    IN  IF h.rewrite = "raised"
        THEN /\ path' = "raised"
             /\ log' = ExceptionHandler
             /\ rewrite' = "raised"
             /\ mypy_cells_length' = 0
             /\ api_runs' = << >>
             /\ mypy_result' = NoResult
             /\ UNCHANGED << checker, mypy_typecheck, debug >>
        ELSE \E res \in api_run(program) :
          /\ mypy_cells' = program
          /\ mypy_var_names' = h.var_names
          /\ mypy_annotated_names' = h.annotated_names
          /\ mypy_classfunc_names' = h.classfunc_names
          /\ rewrite' = h.rewrite
          /\ mypy_cells_length' = offset
          /\ api_runs' = << [args |-> args, program |-> program] >>
          /\ mypy_result' = res
          /\ additional_args' =
                IF ~res.raised /\ usage_fault(res) THEN << >>
                ELSE additional_args
          /\ log' =
                IF res.raised THEN before \o ExceptionHandler
                ELSE before
                \o IfDebug(<< Record("debug", "mypy result") >>)
                \o emitted(res.out, offset)
                \o (IF res.err THEN << Record("error", "stderr") >> ELSE << >>)
                \o (IF usage_fault(res)
                    THEN << Record("error", "error in the extra arguments"),
                            Record("error", "disable the extra arguments") >>
                    ELSE << >>)
                \o IfDebug(<< Record("debug", "Finished type checking") >>)
          /\ path' = IF res.raised THEN "raised" ELSE "checked"
          /\ UNCHANGED << mypy_typecheck, debug >>

\* Mutant of type_check_cell: the SyntaxError of ast.parse(cell_filter) is not
\* caught before the history is touched.
type_check_cell_unguarded(c) ==
    IF is_cell_magic(c) THEN Return("cell_magic", << >>)
    ELSE check_parsed_cell(cell_filter_of(c))

\* MypyIPython.type_check_cell
type_check_cell(c) ==
    IF is_cell_magic(c) THEN Return("cell_magic", << >>)
    ELSE IF SyntaxError(cell_filter_of(c))
         THEN Return("syntax_error",
                     IfDebug(<< Record("debug", "Syntax error in cell") >>))
         ELSE check_parsed_cell(cell_filter_of(c))

\* RevealRemover.visit on one statement: a call of reveal_type becomes the
\* constant None.
RevealRemover(node) ==
    IF node.kind = "Expr" /\ node.name = "reveal_type"
    THEN [node EXCEPT !.name = ""]
    ELSE node

\* Mutant of run_cell: with checking on, the host is given the preprocessed
\* cell in place of the raw cell.
run_cell_filtered(c) ==
    MapSeq(RevealRemover, IF mypy_typecheck THEN cell_filter_of(c) ELSE c)

\* What the host runs for a cell once the pre_run_cell callbacks are done:
\* the raw cell, passed through the registered ast_transformers.
run_cell(c) == MapSeq(RevealRemover, c)

\* Mutant of type_check_of: the callback does not look at mypy_typecheck.
type_check_of_always(cs) ==
    \E c \in cs :
      /\ ncells' = ncells + 1
      /\ cell' = c
      /\ IF ~subscribed THEN Return("unsubscribed", << >>)
         ELSE type_check_cell(c)
      /\ executed' = run_cell(c)
      /\ magic_line' = << >>
      /\ UNCHANGED << api, arg, ret, subscribed, wrapped >>

\* One pre_run_cell event, for a cell out of cs: MypyIPython.type_check is
\* called when it is registered; the host then runs the cell.
type_check_of(cs) ==
    \E c \in cs :
      /\ ncells' = ncells + 1
      /\ cell' = c
      /\ IF ~subscribed THEN Return("unsubscribed", << >>)
         ELSE IF mypy_typecheck THEN type_check_cell(c)
         ELSE Return("off", << >>)
      /\ executed' = run_cell(c)
      /\ magic_line' = << >>
      /\ UNCHANGED << api, arg, ret, subscribed, wrapped >>

type_check ==
    /\ ncells < MaxCells
    /\ type_check_of(Cells)

\* The lines given to %nb_mypy, as their pieces.
MagicArguments ==
    { << >>, << "-v" >>, << "On" >>, << "Off" >>, << "DebugOn" >>,
      << "DebugOff" >>, << "mypy-options" >>, << "mypy-options", " " >>,
      << "mypy-options", " ", "--strict", " ", " ", "-v" >>,
      << "mypy-options", "\t", "--strict" >>,
      << "mypy-options", "--strict" >>,
      << "on" >>, << "On", " " >>, << "On", " ", "Off" >> }

RECURSIVE str_split_blank(_)
\* Mutant of str_split: split(' '), a cut at every single blank.
str_split_blank(s) ==
    IF \A k \in 1..Len(s) : s[k] # " " THEN << s >>
    ELSE LET p == CHOOSE k \in 1..Len(s) :
                     s[k] = " " /\ \A j \in 1..(k - 1) : s[j] # " "
         IN  << SubSeq(s, 1, p - 1) >> \o str_split_blank(SubSeq(s, p + 1, Len(s)))

RECURSIVE str_split(_)
\* str.split(): the runs of pieces that are not white space.
str_split(s) ==
    IF s = << >> THEN << >>
    ELSE IF IsSpace(Head(s)) THEN str_split(Tail(s))
    ELSE LET n == CHOOSE k \in 1..Len(s) :
                     /\ \A j \in 1..k : ~IsSpace(s[j])
                     /\ k = Len(s) \/ IsSpace(s[k + 1])
         IN  << SubSeq(s, 1, n) >> \o str_split(SubSeq(s, n + 1, Len(s)))

\* line.startswith('mypy-options ')
startswith_mypy_options(l) ==
    Len(l) >= 2 /\ l[1] = "mypy-options" /\ l[2] = " "

\* The keys of switcher
switcher ==
    { << >>, << "-v" >>, << "On" >>, << "Off" >>, << "DebugOn" >>,
      << "DebugOff" >> }

\* The line magic nb_mypy(line), for a line out of lines; keep: the line is
\* kept in magic_line.
nb_mypy_of(lines, keep) ==
    \E l \in lines :
      /\ magic_line' = IF keep THEN l ELSE << >>
      /\ path' = "magic"
      /\ additional_args' =
            IF startswith_mypy_options(l) THEN str_split(SubSeq(l, 3, Len(l)))
            ELSE IF l = << "mypy-options" >> THEN << >>
            ELSE additional_args
      /\ mypy_typecheck' =
            CASE l = << "On" >> -> TRUE
              [] l = << "Off" >> -> FALSE
              [] OTHER -> mypy_typecheck
      /\ debug' =
            CASE l = << "DebugOn" >> -> TRUE
              [] l = << "DebugOff" >> -> FALSE
              [] OTHER -> debug
      /\ log' =
            CASE startswith_mypy_options(l) \/ l = << "mypy-options" >> -> << >>
              [] l = << >> -> << Record("info", "State") >>
              [] l = << "-v" >> -> << Record("info", "Version") >>
              [] l \in switcher -> << >>
              [] OTHER -> << Record("error", "Unknown argument") >>
      /\ rewrite' = "none"
      /\ mypy_cells_length' = 0
      /\ api_runs' = << >>
      /\ mypy_result' = NoResult
      /\ UNCHANGED << mypy_cells, mypy_var_names, mypy_annotated_names,
                      mypy_classfunc_names, ncells, cell, executed, api,
                      arg, ret, subscribed, wrapped >>

nb_mypy == nb_mypy_of(MagicArguments, FALSE)

Next == type_check \/ nb_mypy

Spec == Init /\ [][Next]_vars

\* =================================================================== claims

\* What a text declares, read off its items: the identifiers bound by plain
\* and augmented assignments, by annotated assignments, by def and class.
DeclaredVars(text) ==
    UNION { text[i].targets : i \in { j \in 1..Len(text) :
                text[j].kind \in {"Assign", "AugAssign"} } }

DeclaredAnnotated(text) ==
    UNION { text[i].targets : i \in { j \in 1..Len(text) :
                text[j].kind = "AnnAssign" } }

DeclaredCallables(text) ==
    { text[i].name : i \in { j \in 1..Len(text) :
                text[j].kind \in {"FunctionDef", "AsyncFunctionDef", "ClassDef"} } }

\* The step is a run of type_check_cell that reached clean_history.
Processed == ncells' = ncells + 1 /\ path' = "checked"

C2_RegistryMirrorsBuffer ==
    /\ mypy_var_names = DeclaredVars(mypy_cells)
    /\ mypy_annotated_names = DeclaredAnnotated(mypy_cells)
    /\ mypy_classfunc_names = DeclaredCallables(mypy_cells)

\* Item it declares identifier n in category cat.
Declares(it, n, cat) ==
    CASE cat = "var" -> it.kind \in {"Assign", "AugAssign"} /\ n \in it.targets
      [] cat = "annotated" -> it.kind = "AnnAssign" /\ n \in it.targets
      [] cat = "classfunc" ->
            it.kind \in {"FunctionDef", "AsyncFunctionDef", "ClassDef"} /\ it.name = n

Categories == {"var", "annotated", "classfunc"}

\* The cells (by number) whose text declares n in category cat in the text.
DeclFrags(text, n, cat) ==
    { text[i].frag : i \in { j \in 1..Len(text) : Declares(text[j], n, cat) } }

\* The buffer holds no declarations of one name in one category that come
\* from two different cells.
OneFragmentPerName ==
    \A n \in Identifiers : \A cat \in Categories :
        Cardinality(DeclFrags(mypy_cells, n, cat)) <= 1

\* Every declaration that is left of the names the last cell re-declared, in
\* the categories that cell purges, is the last cell's own.
OldDeclarationsGone ==
    LET V == DeclaredVars(cell)
        A == DeclaredAnnotated(cell)
        C == DeclaredCallables(cell)
    IN  /\ \A n \in V \union A \union C :
              /\ DeclFrags(mypy_cells, n, "var") \subseteq {ncells}
              /\ DeclFrags(mypy_cells, n, "classfunc") \subseteq {ncells}
        /\ \A n \in A \union C :
              DeclFrags(mypy_cells, n, "annotated") \subseteq {ncells}

\* C3 as stated: the buffer never holds declarations of one name in one
\* category coming from two different fragments.
C3_NeverTwoFragments == OneFragmentPerName

\* C3 amended: whenever a fragment is processed while the History Buffer
\* re-parses, every earlier declaration of a name it re-declares is gone from
\* the purged categories, the buffer holds no declarations of one name in one
\* category from two fragments, and after `a: str = "x"` every live
\* declaration of `a` is that one and AnnotatedVariables contains `a`.
C3_Redefinition ==
    [][ (Processed /\ ~SyntaxError(mypy_cells)) =>
          /\ OldDeclarationsGone'
          /\ OneFragmentPerName'
          /\ (cell' = << AnnAssignStmt("a") >> =>
                /\ "a" \in mypy_annotated_names'
                /\ \A cat \in Categories :
                      DeclFrags(mypy_cells', "a", cat) \subseteq {ncells'})
    ]_vars

\* C3 witness: `a: str = "x"` was processed, an earlier declaration was
\* replaced by pass in the rewrite, and AnnotatedVariables contains `a`.
C3_Witness ==
    /\ path = "checked"
    /\ rewrite = "done"
    /\ cell = << AnnAssignStmt("a") >>
    /\ "a" \in mypy_annotated_names
    /\ "a" \notin mypy_var_names
    /\ \E i \in 1..Len(mypy_cells) :
          mypy_cells[i].kind = "Pass" /\ mypy_cells[i].frag < ncells

\* ------------------------------------------------- the session of the scenario

\* def f(): pass, and def f(x: int) -> int: return x: a def on one line
OneLineDef(n) == Item("FunctionDef", {}, {}, n, 1, "full", FALSE)

\* The cells `a = 1`, `a = 'x'`, `def f(): pass`,
\* `def f(x: int) -> int: return x`, submitted in this order.
Scenario ==
    << << AssignStmt({"a"}) >>, << AssignStmt({"a"}) >>,
       << OneLineDef("f") >>, << OneLineDef("f") >> >>

type_check_scenario ==
    /\ ncells < Len(Scenario)
    /\ type_check_of({Scenario[ncells + 1]})

\* The session never turns checking off: every cell is processed.
nb_mypy_scenario == nb_mypy_of(MagicArguments \ { << "Off" >> }, FALSE)

NextScenario == type_check_scenario \/ nb_mypy_scenario

SpecScenario == Init /\ [][NextScenario]_vars

\* The buffer holds exactly one live definition of f, that of cell number k.
OneLiveDefinition(k) ==
    /\ DeclFrags(mypy_cells, "f", "classfunc") = {k}
    /\ Cardinality({ i \in 1..Len(mypy_cells) :
                        Declares(mypy_cells[i], "f", "classfunc") }) = 1

\* C4 as stated: after the four fragments Variables = {}, AnnotatedVariables
\* = {}, Callables = {f}, and the buffer holds exactly one live definition of
\* f, the later one.
C4_ScenarioAsStated ==
    ncells = Len(Scenario) =>
        /\ mypy_var_names = {}
        /\ mypy_annotated_names = {}
        /\ mypy_classfunc_names = {"f"}
        /\ OneLiveDefinition(Len(Scenario))

\* C4 amended: after the four fragments Variables = {a} (the re-assigned `a`
\* is still live), AnnotatedVariables = {}, Callables = {f}, and the buffer
\* holds exactly one live definition of f, the later one.
C4_Scenario ==
    ncells = Len(Scenario) =>
        /\ mypy_var_names = {"a"}
        /\ mypy_annotated_names = {}
        /\ mypy_classfunc_names = {"f"}
        /\ OneLiveDefinition(Len(Scenario))
        /\ DeclFrags(mypy_cells, "a", "var") = {2}

\* C4 witness: the fourth fragment of the scenario has been processed, and
\* its rewrite replaced the earlier definition of f.
C4_Witness ==
    /\ ncells = Len(Scenario)
    /\ path = "checked"
    /\ rewrite = "done"
    /\ cell = << OneLineDef("f") >>

\* ------------------------------------------------------ offsets, diagnostics

\* The indices of the log records that are emitted diagnostics.
Diagnostics == { j \in 1..Len(log) : log[j].what = "diag" }

\* C5: for every processed fragment the offset is the number of lines of the
\* buffer after the rewrite and before the append: the buffer handed to the
\* checker is the rewritten history followed by the preprocessed fragment,
\* the history has exactly offset lines, and line k of the fragment is line
\* offset + k of the checked text.
C5_OffsetAlignment ==
    path = "checked" =>
        LET cf == Tagged(cell_filter_of(cell), ncells)
            n == Len(cf)
            m == Len(mypy_cells)
            pieces == split(mypy_cells)
        IN  /\ m >= n
            /\ SubSeq(mypy_cells, m - n + 1, m) = cf
            /\ mypy_cells_length = LineCount(SubSeq(mypy_cells, 1, m - n))
            /\ LineCount(mypy_cells) = mypy_cells_length + LineCount(cell)
            /\ Len(api_runs) = 1 /\ api_runs[1].program = mypy_cells
            /\ \A k \in 1..LineCount(cell) : pieces[mypy_cells_length + k] = ncells
            /\ \A k \in 1..mypy_cells_length : pieces[k] < ncells

\* C5 witness: a fragment of several lines was processed after a rewrite of a
\* history that is not empty.
C5_Witness ==
    /\ path = "checked"
    /\ rewrite = "done"
    /\ mypy_cells_length > 1
    /\ LineCount(cell) > 1

\* C6: every diagnostic of the checker on an absolute line n above the offset
\* L is emitted with line number n - L, and every emitted line number is >= 1.
C6_OffsetCorrectness ==
    path = "checked" =>
        LET out == mypy_result.out
            L == mypy_cells_length
        IN  /\ \A i \in 1..Len(out) :
                  (out[i].marker /\ out[i].line_nr > L) =>
                      \E j \in Diagnostics :
                          log[j].src = i /\ log[j].line_nr = out[i].line_nr - L
            /\ \A j \in Diagnostics :
                  /\ log[j].line_nr >= 1
                  /\ log[j].line_nr = out[log[j].src].line_nr - L

\* C6 witness: with L > 0 lines of history the checker reported line L + 3
\* and the diagnostic was emitted as line 3.
C6_Witness ==
    /\ path = "checked"
    /\ mypy_cells_length > 0
    /\ \E j \in Diagnostics :
          /\ log[j].line_nr = 3
          /\ mypy_result.out[log[j].src].line_nr = mypy_cells_length + 3

\* C7: a diagnostic on an absolute line at or below the offset is never
\* emitted, and every emitted diagnostic lies in the text of the fragment
\* whose check emits it; a run that checks nothing emits nothing.
C7_Suppression ==
    /\ path # "checked" => Diagnostics = {}
    /\ path = "checked" =>
          LET out == mypy_result.out
              L == mypy_cells_length
          IN  /\ \A i \in 1..Len(out) :
                    (out[i].marker /\ out[i].line_nr <= L) =>
                        \A j \in Diagnostics : log[j].src # i
              /\ \A j \in Diagnostics :
                    /\ out[log[j].src].line_nr > L
                    /\ split(mypy_cells)[out[log[j].src].line_nr] = ncells

\* C7 witness: the checker reported diagnostics on history lines and on
\* lines of the fragment, and only the latter were emitted.
C7_Witness ==
    /\ path = "checked"
    /\ mypy_cells_length > 0
    /\ \E i \in 1..Len(mypy_result.out) :
          /\ mypy_result.out[i].marker
          /\ mypy_result.out[i].line_nr <= mypy_cells_length
    /\ Diagnostics # {}
    /\ Cardinality(Diagnostics) = LineCount(cell)

\* --------------------------------------------------- fix_line_nr on its own

\* Length of a message in pieces, and the largest offset.
MaxChunks == 4
MaxOffset == 2

\* The pieces messages are made of.
Chunks ==
    { << "l", "i", "n", "e", " " >>, << "l", "i", "n", "e" >>, << "\t" >>,
      << "1" >>, << "2" >>, << "x" >> }

RECURSIVE Flatten(_)
Flatten(ss) == IF ss = << >> THEN << >> ELSE Head(ss) \o Flatten(Tail(ss))

Messages ==
    { Flatten(cs) : cs \in UNION { [1..k -> Chunks] : k \in 0..MaxChunks } }

InitFix ==
    /\ InitSession
    /\ api = "any"
    /\ arg \in [line : Messages, offset : 0..MaxOffset]
    /\ ret = NoReturn

\* fix_line_nr(message, mypy_cells_length), as type_check_cell calls it
call_fix_line_nr ==
    /\ ~ret.done
    /\ ret' = [done |-> TRUE, value |-> fix_line_nr(arg.line, arg.offset)]
    /\ UNCHANGED << mypy_cells, mypy_var_names, mypy_annotated_names,
                    mypy_classfunc_names, mypy_typecheck, debug,
                    additional_args, ncells, cell, path, rewrite,
                    mypy_cells_length, api_runs, mypy_result, log, executed,
                    magic_line, api, arg, subscribed, wrapped >>

NextFix == call_fix_line_nr

SpecFix == InitFix /\ [][NextFix]_vars

RECURSIVE Corrected(_, _)
\* The message read from left to right: where "line", a blank and digits
\* start, the number is replaced by number - offset; any other character is
\* copied.
Corrected(s, offset) ==
    IF s = << >> THEN << >>
    ELSE IF LineRefAt(s, 1)
         THEN LET q == DigitsEnd(s, 6)
              IN  SubSeq(s, 1, 5) \o str(int(SubSeq(s, 6, q)) - offset)
                  \o Corrected(SubSeq(s, q + 1, Len(s)), offset)
         ELSE << Head(s) >> \o Corrected(Tail(s), offset)

\* C8: fix_line_nr returns, for every message, the message with every
\* occurrence of "line N" replaced by "line N - offset" (also when the result
\* is zero or negative) and every other character kept in place.
C8_EmbeddedLineReferences ==
    ret.done => ret.value = Corrected(arg.line, arg.offset)

\* C8 witness: a message with two references, both to history lines, comes
\* out with a negative and a zero number.
C8_Witness ==
    /\ ret.done
    /\ arg.offset = 2
    /\ arg.line = LineWord \o << "1" >> \o LineWord \o << "2" >>
    /\ ret.value = LineWord \o << "-", "1" >> \o LineWord \o << "0" >>


\* The text of the cell starts with %%.
StartsWithBlockMarker(c) == c # << >> /\ Head(c).kind = "CellMagic"

\* A cell reaches type_check_cell: the callback runs while checking is on.
Handled == ncells' = ncells + 1 /\ mypy_typecheck

\* C9: a cell whose text starts with %% returns at once: the History Buffer,
\* the three registries and the extra flags are unchanged, mypy is not called
\* and nothing is logged.
C9_BlockDirectiveExemption ==
    [][(Handled /\ StartsWithBlockMarker(cell'))
          => /\ UNCHANGED checker
             /\ api_runs' = << >>
             /\ log' = << >>]_vars

\* C9 witness: a %% cell has just been handled with checking on, debug on and
\* a History Buffer that is not empty.
C9_Witness ==
    /\ path = "cell_magic"
    /\ StartsWithBlockMarker(cell)
    /\ mypy_typecheck
    /\ debug
    /\ mypy_cells # << >>
    /\ api_runs = << >>

\* C10: when the preprocessed cell does not parse, the cell is given up with
\* the History Buffer and the three registries unchanged, mypy is not called,
\* the failure is logged at debug level when debug is on and nothing is logged
\* when it is off, and checking stays on for the next cell.
C10_FragmentSyntaxError ==
    [][(Handled /\ ~StartsWithBlockMarker(cell')
                /\ SyntaxError(cell_filter_of(cell')))
          => /\ UNCHANGED << checker, mypy_typecheck, debug >>
             /\ api_runs' = << >>
             /\ log' = IF debug
                       THEN << Record("debug", "Syntax error in cell") >>
                       ELSE << >>]_vars

\* C10 witness: a cell that does not parse has just been given up with debug
\* on: one debug record, no call of mypy, the History Buffer still filled.
C10_Witness ==
    /\ path = "syntax_error"
    /\ SyntaxError(cell_filter_of(cell))
    /\ debug
    /\ log = << Record("debug", "Syntax error in cell") >>
    /\ api_runs = << >>
    /\ mypy_cells # << >>
\* ------------------------------------------- comment_magic on its own

\* Length of a cell in characters.
MaxChars == 5

\* The characters cells are made of.
CellChars == { " ", "%", "!", "?", "x", "\n" }

CellTexts == UNION { [1..k -> CellChars] : k \in 0..MaxChars }

RECURSIVE split_newline(_)
\* cell.split('\n') on the characters of a cell
split_newline(s) ==
    IF \A k \in 1..Len(s) : s[k] # "\n" THEN << s >>
    ELSE LET p == CHOOSE k \in 1..Len(s) :
                     s[k] = "\n" /\ \A j \in 1..(k - 1) : s[j] # "\n"
         IN  << SubSeq(s, 1, p - 1) >> \o split_newline(SubSeq(s, p + 1, Len(s)))

RECURSIVE join_newline(_)
\* functools.reduce(lambda a, b: a + "\n" + b, lines)
join_newline(ls) ==
    IF Len(ls) = 1 THEN ls[1]
    ELSE join_newline(SubSeq(ls, 1, Len(ls) - 1)) \o << "\n" >> \o ls[Len(ls)]

RECURSIVE first_none_whitspace(_)
\* The index (from 0) of the first character that is not white space.
first_none_whitspace(line) ==
    IF line = << >> \/ ~IsSpace(Head(line)) THEN 0
    ELSE 1 + first_none_whitspace(Tail(line))

PassComment == << "p", "a", "s", "s", " ", "#" >>

\* Mutant of comment_magic_line: the last character of the line is not
\* looked at.
comment_magic_line_fst_only(line) ==
    LET i == first_none_whitspace(line)
    IN  IF i >= Len(line) THEN line
        ELSE IF line[i + 1] \in { "%", "!", "?" }
             THEN SubSeq(line, 1, i) \o PassComment \o SubSeq(line, i + 1, Len(line))
             ELSE line

\* comment_magic on the characters of one line
comment_magic_line(line) ==
    LET i == first_none_whitspace(line)
    IN  IF i >= Len(line) THEN line
        ELSE LET fst == line[i + 1]
                 lst == line[Len(line)]
             IN  IF fst \in { "%", "!", "?" } \/ lst = "?"
                 THEN SubSeq(line, 1, i) \o PassComment
                          \o SubSeq(line, i + 1, Len(line))
                 ELSE line

\* cell_filter of type_check_cell on the characters of a cell
cell_filter_text(text) ==
    join_newline(MapSeq(comment_magic_line, split_newline(text)))

InitMagic ==
    /\ InitSession
    /\ api = "any"
    /\ arg \in [cell : CellTexts]
    /\ ret = NoReturn

\* The preprocessing of type_check_cell applied to the cell
call_comment_magic ==
    /\ ~ret.done
    /\ ret' = [done |-> TRUE, value |-> cell_filter_text(arg.cell)]
    /\ UNCHANGED << mypy_cells, mypy_var_names, mypy_annotated_names,
                    mypy_classfunc_names, mypy_typecheck, debug,
                    additional_args, ncells, cell, path, rewrite,
                    mypy_cells_length, api_runs, mypy_result, log, executed,
                    magic_line, api, arg, subscribed, wrapped >>

NextMagic == call_comment_magic

SpecMagic == InitMagic /\ [][NextMagic]_vars

\* The line is empty or white space only.
Blank(l) == \A k \in 1..Len(l) : IsSpace(l[k])

\* The white space a line starts with.
Indentation(l) ==
    LET n == Cardinality({ k \in 1..Len(l) : \A j \in 1..k : IsSpace(l[j]) })
    IN  SubSeq(l, 1, n)

\* The first character after the indentation is % ! or ?, or the last
\* character is ?.
HasSigil(l) ==
    \/ l[Len(Indentation(l)) + 1] \in { "%", "!", "?" }
    \/ l[Len(l)] = "?"

\* The line rule: a blank line or a line without sigil stays; any other line
\* becomes its indentation, "pass #", and the rest of the line.
LineRule(l) ==
    IF Blank(l) THEN l
    ELSE IF ~HasSigil(l) THEN l
    ELSE LET n == Len(Indentation(l))
         IN  Indentation(l) \o PassComment \o SubSeq(l, n + 1, Len(l))

\* C11: every line of the preprocessed cell is the line of the raw cell under
\* the line rule; the preprocessed cell has as many lines as the raw cell and
\* every line keeps its indentation.
C11_PreprocessorLineRule ==
    ret.done =>
        LET raw == split_newline(arg.cell)
            new == split_newline(ret.value)
        IN  /\ Len(new) = Len(raw)
            /\ \A i \in 1..Len(raw) :
                  /\ new[i] = LineRule(raw[i])
                  /\ Indentation(new[i]) = Indentation(raw[i])

\* C11 witness: a cell of three lines, an indented help query, a blank line
\* and a plain line, has been preprocessed.
C11_Witness ==
    /\ ret.done
    /\ arg.cell = << " ", "x", "?", "\n", "\n" >>
    /\ ret.value = << " " >> \o PassComment \o << "x", "?", "\n", "\n" >>


\* The cell is one line, a shell escape or line magic: its first character
\* after the indentation is ! or %.
SoleMagicLine(c) == Len(c) = 1 /\ c[1].kind \in {"Magic", "IndentedMagic"}

\* The buffer grew by exactly one no-op line.
OneNoOpAppended ==
    /\ Len(mypy_cells') = Len(mypy_cells) + 1
    /\ SubSeq(mypy_cells', 1, Len(mypy_cells)) = mypy_cells
    /\ mypy_cells'[Len(mypy_cells')].kind = "Pass"
    /\ mypy_cells'[Len(mypy_cells')].lines = 1

\* C12: a cell that is one shell-escape or line-magic line, indented or not,
\* is processed without parse failure, leaves the registries as they are,
\* causes no rewrite and appends exactly one no-op line to the buffer.
C12_Neutralization ==
    [][(Handled /\ SoleMagicLine(cell'))
          => /\ path' # "syntax_error"
             /\ UNCHANGED << mypy_var_names, mypy_annotated_names,
                             mypy_classfunc_names >>
             /\ rewrite' = "none"
             /\ OneNoOpAppended]_vars


\* The cell arrives while checking is on, is no block directive and parses
\* after preprocessing.
Eligible(c) ==
    /\ mypy_typecheck
    /\ ~StartsWithBlockMarker(c)
    /\ ~SyntaxError(cell_filter_of(c))

\* The one call of mypy for the cell just handled: made with the buffer as it
\* is after rewrite and append, the cell's text at its end, and with the
\* baseline flags followed by the extra flags as they were.
InvokedOnce ==
    /\ Len(api_runs') = 1
    /\ api_runs'[1].program = mypy_cells'
    /\ Len(mypy_cells') >= Len(cell')
    /\ SubSeq(mypy_cells', Len(mypy_cells') - Len(cell') + 1, Len(mypy_cells'))
          = Tagged(cell_filter_of(cell'), ncells')
    /\ api_runs'[1].args
          = << << "--ignore-missing-imports" >>, << "--allow-redefinition" >> >>
            \o additional_args

\* The rewrite of the history for cell c raises in astor.to_source.
RewriteRaises(c) ==
    clean_history(NamesLister(ast_parse(cell_filter_of(c)), FALSE)).rewrite
        = "raised"

Returned == api_runs' # << >> /\ ~mypy_result'.raised

\* The error that tells of the extra arguments is in the log.
FlagsErrorLogged(l) ==
    \E j \in 1..Len(l) :
        l[j].level = "error" /\ l[j].what = "error in the extra arguments"

\* C14 as stated: whenever a call of mypy returns status 2, the extra flags
\* are empty when the cell's processing ends and a descriptive error is
\* logged.
C14_RecoveryAsStated ==
    [][(Returned /\ mypy_result'.status = 2)
          => additional_args' = << >> /\ FlagsErrorLogged(log')]_vars

\* C14 amended: whenever a call of mypy returns status 2 together with error
\* output, the extra flags are empty when the cell's processing ends and a
\* descriptive error is logged; after any other return the flags are as they
\* were and no such error is logged.  A call of mypy for the cell that
\* follows directly is made with the baseline flags only.
C14_Recovery ==
    [][/\ Returned =>
            IF mypy_result'.err /\ mypy_result'.status = 2
            THEN additional_args' = << >> /\ FlagsErrorLogged(log')
            ELSE additional_args' = additional_args /\ ~FlagsErrorLogged(log')
       /\ (path = "checked" /\ mypy_result.err /\ mypy_result.status = 2
             /\ ncells' = ncells + 1 /\ api_runs' # << >>)
            => api_runs'[1].args
                  = << << "--ignore-missing-imports" >>, << "--allow-redefinition" >> >>
      ]_vars

\* C14 witness: mypy was called with the extra flags --strict -v and
\* returned status 2 with error output; the flags are empty and the error is
\* logged.
C14_Witness ==
    /\ path = "checked"
    /\ mypy_result.err
    /\ mypy_result.status = 2
    /\ api_runs[1].args = BaselineArgs \o << << "--strict" >>, << "-v" >> >>
    /\ additional_args = << >>
    /\ FlagsErrorLogged(log)


\* The names cell c makes clean_history purge, of the three categories.
PurgeSets(c) ==
    LET new == NamesLister(ast_parse(cell_filter_of(c)), FALSE)
    IN  << remove_var_of(new), remove_annotated_of(new),
           remove_classfunc_of(new) >>

NoPurge(c) == PurgeSets(c) = << {}, {}, {} >>

\* The buffer is the buffer as it was, followed by the preprocessed cell.
Appended ==
    mypy_cells' = mypy_cells \o Tagged(cell_filter_of(cell'), ncells')

\* C15: when a cell makes some purge set non-empty and the History Buffer
\* does not parse, the rewrite is abandoned, the buffer text is left as it
\* was (the cell is appended to it), an error is logged at error level, and
\* nothing is raised: processing goes on to the call of mypy.
C15_CorruptionGuard ==
    [][(ncells' = ncells + 1 /\ Eligible(cell') /\ ~NoPurge(cell')
            /\ SyntaxError(mypy_cells))
          => /\ rewrite' = "abandoned"
             /\ Appended
             /\ log'[1] = Record("error", "Syntax error in old cells")
             /\ \A j \in 1..Len(log') :
                   log'[j].level = "critical" => mypy_result'.raised
             /\ Len(api_runs') = 1]_vars

\* C15 witness: a rewrite has been abandoned over a history that does not
\* parse, the error is logged and mypy has been called and has returned.
C15_Witness ==
    /\ path = "checked"
    /\ rewrite = "abandoned"
    /\ SyntaxError(mypy_cells)
    /\ log[1] = Record("error", "Syntax error in old cells")
    /\ Len(api_runs) = 1
    /\ ~mypy_result.raised


\* The critical record with the hint to turn checking off is in the log.
CriticalLogged(l) ==
    \E j \in 1..Len(l) :
        l[j].level = "critical" /\ l[j].what = "Error in type checker"

\* A fault is raised in this step of type_check_cell: by astor.to_source in
\* the rewrite, or by the call of mypy.
Faulted ==
    /\ ncells' = ncells + 1
    /\ Eligible(cell')
    /\ RewriteRaises(cell') \/ mypy_result'.raised

\* C16: a fault raised in type_check_cell is caught: the critical record with
\* the hint is logged, whether debug is on or off, the callback returns with
\* checking still on, and the next cell is handled; without a fault no
\* critical record is logged.
C16_FaultContainment ==
    /\ [][/\ Faulted => /\ CriticalLogged(log')
                        /\ path' = "raised"
                        /\ UNCHANGED << mypy_typecheck, debug >>
          /\ ~Faulted => ~CriticalLogged(log')]_vars
    /\ []((path = "raised" /\ ncells < MaxCells) => ENABLED type_check)

\* C16 witness: astor.to_source raised in the rewrite with debug off: the
\* critical record is logged, the buffer is as it was, and mypy was not
\* called.
C16_Witness ==
    /\ path = "raised"
    /\ rewrite = "raised"
    /\ ~debug
    /\ CriticalLogged(log)
    /\ mypy_cells # << >>
    /\ api_runs = << >>


\* What the host runs for cell c when checking is off throughout: the
\* callback returns at once, and the cell goes through the host's
\* transformers.
RunWithCheckerOff(c) ==
    [i \in 1..Len(c) |->
        IF c[i].kind = "Expr" THEN [c[i] EXCEPT !.name = ""] ELSE c[i]]

CellsResubmit ==
    { << RevealStmt, MagicLine >>,                  \* reveal_type(a) / !ls
      << ExprStmt >>,                               \* print(a)
      << AssignStmt({"a"}) >>,                      \* a = 1
      << FunctionDef("f") >> }                      \* def f(x): ... (3 lines)

InitResubmit ==
    /\ InitSession
    /\ api \in DeterministicCheckers
    /\ arg = << >>
    /\ ret = NoReturn

type_check_resubmit ==
    /\ ncells < MaxCells
    /\ type_check_of(CellsResubmit)

nb_mypy_resubmit == nb_mypy_of(MagicArguments, FALSE)

NextResubmit == type_check_resubmit \/ nb_mypy_resubmit

SpecResubmit == InitResubmit /\ [][NextResubmit]_vars

\* The diagnostics emitted in a run: fragment-relative line and message.
Emitted(l) ==
    { << l[j].line_nr, l[j].message >> :
        j \in { i \in 1..Len(l) : l[i].what = "diag" } }

\* The cell just checked is submitted again and checked again, and it
\* introduces no symbol.
Resubmitted ==
    /\ path = "checked"
    /\ ncells' = ncells + 1
    /\ cell' = cell
    /\ path' = "checked"
    /\ NamesLister(ast_parse(cell_filter_of(cell)), FALSE) = NoNames

\* C18 as stated: with a deterministic checker, the second submission of a
\* cell that introduces no symbol emits the same fragment-relative
\* diagnostics as the first.
C18_IdempotenceAsStated ==
    [][Resubmitted => Emitted(log') = Emitted(log)]_vars

\* C18 amended: with a deterministic checker whose report on a line does not
\* depend on the text before the line, the second submission of a cell that
\* introduces no symbol emits the same fragment-relative diagnostics as the
\* first, although the buffer has grown and the offset differs.
C18_Idempotence ==
    [][(Resubmitted /\ api = "each_line")
          => /\ Emitted(log') = Emitted(log)
             /\ mypy_cells_length' = mypy_cells_length + LineCount(cell)]_vars

\* C18 witness: a cell of two lines without symbols has been checked a
\* second time on top of a history and its own first copy, and two
\* diagnostics are emitted.
C18_Witness ==
    /\ api = "each_line"
    /\ path = "checked"
    /\ ncells = 3
    /\ cell = << RevealStmt, MagicLine >>
    /\ mypy_cells_length = 3
    /\ Cardinality(Emitted(log)) = 2
    /\ mypy_cells[2].frag = 2


\* --------------------------------------- sessions that keep the command line

CellsControl ==
    { << AssignStmt({"a"}) >>,                      \* a = 1
      << FunctionDef("a") >>,                       \* def a(x): ... (3 lines)
      << MagicLine >> }                             \* !ls

type_check_control ==
    /\ ncells < MaxCells
    /\ type_check_of(CellsControl)

nb_mypy_control == nb_mypy_of(MagicArguments, TRUE)

NextControl == type_check_control \/ nb_mypy_control

SpecControl == Init /\ [][NextControl]_vars

\* The tokens of a string that white space separates, in order: token k
\* starts at the k-th piece that is no white space and follows white space or
\* starts the string, and runs up to the next white space.
Tokens(s) ==
    LET starts == { i \in 1..Len(s) :
                      ~IsSpace(s[i]) /\ (i = 1 \/ IsSpace(s[i - 1])) }
        start(k) == CHOOSE i \in starts :
                      Cardinality({ j \in starts : j < i }) = k - 1
        end(i) == CHOOSE j \in i..Len(s) :
                      /\ \A m \in i..j : ~IsSpace(s[m])
                      /\ j = Len(s) \/ IsSpace(s[j + 1])
    IN  [k \in 1..Cardinality(starts) |-> SubSeq(s, start(k), end(start(k)))]

\* The line is "mypy-options", a blank, and the rest.
OptionsLine(l) == Len(l) >= 2 /\ SubSeq(l, 1, 2) = << "mypy-options", " " >>

\* A run of nb_mypy with line l.
Command(l) == path' = "magic" /\ magic_line' = l

\* C19: the command takes the empty line (state is logged), -v (version is
\* logged), On, Off, DebugOn, DebugOff, "mypy-options" alone (the extra flags
\* become empty) and "mypy-options <rest>" (the extra flags become the tokens
\* of <rest> in order); each changes nothing but what it names.  Any other
\* line logs an error and leaves on/off, debug and the extra flags as they
\* were.  No command changes the buffer or the registries.
C19_ControlSurface ==
    [][path' = "magic" =>
        LET l == magic_line'
        IN  /\ UNCHANGED << mypy_cells, mypy_var_names, mypy_annotated_names,
                            mypy_classfunc_names >>
            /\ CASE l = << >> ->
                      /\ log' = << Record("info", "State") >>
                      /\ UNCHANGED << mypy_typecheck, debug, additional_args >>
                 [] l = << "-v" >> ->
                      /\ log' = << Record("info", "Version") >>
                      /\ UNCHANGED << mypy_typecheck, debug, additional_args >>
                 [] l = << "On" >> ->
                      /\ mypy_typecheck'
                      /\ UNCHANGED << debug, additional_args >>
                 [] l = << "Off" >> ->
                      /\ ~mypy_typecheck'
                      /\ UNCHANGED << debug, additional_args >>
                 [] l = << "DebugOn" >> ->
                      /\ debug'
                      /\ UNCHANGED << mypy_typecheck, additional_args >>
                 [] l = << "DebugOff" >> ->
                      /\ ~debug'
                      /\ UNCHANGED << mypy_typecheck, additional_args >>
                 [] l = << "mypy-options" >> ->
                      /\ additional_args' = << >>
                      /\ UNCHANGED << mypy_typecheck, debug >>
                 [] OptionsLine(l) ->
                      /\ additional_args' = Tokens(SubSeq(l, 3, Len(l)))
                      /\ UNCHANGED << mypy_typecheck, debug >>
                 [] OTHER ->
                      /\ log' = << Record("error", "Unknown argument") >>
                      /\ UNCHANGED << mypy_typecheck, debug, additional_args >>
    ]_vars

\* C19 witness: with a filled buffer, the flags have been set to two tokens
\* from a line with two blanks between them.
C19_Witness ==
    /\ path = "magic"
    /\ magic_line = << "mypy-options", " ", "--strict", " ", " ", "-v" >>
    /\ additional_args = << << "--strict" >>, << "-v" >> >>
    /\ mypy_cells # << >>
    /\ mypy_classfunc_names = {"a"}


\* The buffer ends with the preprocessed cell, as it was submitted.
EndsWithCell ==
    /\ Len(mypy_cells') >= Len(cell')
    /\ SubSeq(mypy_cells', Len(mypy_cells') - Len(cell') + 1, Len(mypy_cells'))
          = Tagged(cell_filter_of(cell'), ncells')

\* C20: when a processed cell makes all three purge sets empty, the buffer
\* afterwards is the buffer as it was followed by the preprocessed cell; the
\* buffer changes in another way only in a step that rewrote the history
\* with names to purge; whenever a cell is appended, the buffer ends with
\* its text as preprocessed; a control command leaves the buffer alone.
C20_AppendOnly ==
    [][/\ (ncells' = ncells + 1 /\ Eligible(cell') /\ NoPurge(cell'))
            => Appended
       /\ (mypy_cells' # mypy_cells /\ ~Appended)
            => /\ rewrite' = "done"
               /\ ~NoPurge(cell')
               /\ EndsWithCell
       /\ ncells' = ncells => mypy_cells' = mypy_cells]_vars

\* C20 witness: a cell without names to purge has been appended behind a
\* def of three lines with its body and a no-op line, both as submitted.
C20_Witness ==
    /\ path = "checked"
    /\ rewrite = "none"
    /\ ncells = 3
    /\ Len(mypy_cells) = 3
    /\ mypy_cells[1] = [FunctionDef("f") EXCEPT !.frag = 1]
    /\ mypy_cells[2] = [PassStmt EXCEPT !.frag = 2]
    /\ mypy_cells[3].frag = 3



\* The statements of the buffer a rewrite visits: what ast.parse gives, less
\* the top-level pass and expression statements.
Statements ==
    SelectSeq(SelectSeq(mypy_cells, LAMBDA it : it.kind # "Blank"),
              LAMBDA st : st.kind \notin {"Pass", "Expr"})

\* The part of the new buffer in front of the appended cell.
Rewritten == SubSeq(mypy_cells', 1, Len(mypy_cells') - Len(cell'))

\* The pruning policy: st is to be replaced under the purge sets
\* purge = << Variables, AnnotatedVariables, Callables >>.
Superseded(st, purge) ==
    CASE st.kind \in {"FunctionDef", "AsyncFunctionDef", "ClassDef"} ->
            st.name \in purge[3]
      [] st.kind \in {"Assign", "AugAssign"} ->
            (st.targets \union st.roots) \intersect purge[1] # {}
      [] st.kind = "AnnAssign" -> st.targets \intersect purge[2] # {}
      [] OTHER -> FALSE

\* C21: in a rewrite every visited statement of the buffer is replaced by a
\* no-op exactly when its own category's purge set names it: a def or class
\* by its name and the Callables set, a plain or augmented assignment by any
\* of its target names (roots of attribute and subscript targets included)
\* and the Variables set, an annotated assignment by its target and the
\* AnnotatedVariables set; a statement that is not replaced keeps its kind
\* and its names.
C21_PruningPolicy ==
    [][rewrite' = "done"
          => /\ Len(Rewritten) = Len(Statements)
             /\ \A i \in 1..Len(Statements) :
                   /\ Rewritten[i].kind = "Pass"
                        <=> Superseded(Statements[i], PurgeSets(cell'))
                   /\ Rewritten[i].kind # "Pass"
                        => /\ Rewritten[i].kind = Statements[i].kind
                           /\ Rewritten[i].targets = Statements[i].targets
                           /\ Rewritten[i].roots = Statements[i].roots
                           /\ Rewritten[i].name = Statements[i].name]_vars

\* C21 witness: a plain re-definition of a has replaced the earlier plain
\* assignment of a and has left the earlier annotated assignment of a.
C21_Witness ==
    /\ rewrite = "done"
    /\ Len(mypy_cells) = 3
    /\ mypy_cells[1].kind = "AnnAssign" /\ mypy_cells[1].targets = {"a"}
    /\ mypy_cells[1].frag = 1
    /\ mypy_cells[2].kind = "Pass" /\ mypy_cells[2].frag = 2
    /\ mypy_cells[3] = [AssignStmt({"a"}) EXCEPT !.frag = 3]



\* C22: the buffer a rewrite writes back, in front of the appended cell,
\* holds no top-level no-op and no top-level bare expression statement.
C22_CleanupAfterPruning ==
    [][rewrite' = "done"
          => \A i \in 1..Len(Rewritten) :
                Rewritten[i].kind \notin {"Pass", "Expr"}]_vars



\* C23 as stated: after a rewrite every function that is left in the buffer,
\* the methods of the classes that are left included, has a body of a
\* single no-op.
C23_SignatureOnlyAsStated ==
    [][rewrite' = "done"
          => \A i \in 1..Len(Rewritten) :
                Rewritten[i].kind \in {"FunctionDef", "AsyncFunctionDef", "ClassDef"}
                   => Rewritten[i].body = "pass"]_vars

\* C23: after a rewrite every function the traversal reached and left in
\* the buffer has a body of a single no-op, with its name kept; a class that
\* is left in the buffer is as it was, its methods with their bodies.
C23_SignatureOnly ==
    [][rewrite' = "done"
          => /\ Len(Rewritten) = Len(Statements)
             /\ \A i \in 1..Len(Rewritten) :
                   /\ Rewritten[i].kind \in {"FunctionDef", "AsyncFunctionDef"}
                        => /\ Rewritten[i].body = "pass"
                           /\ Rewritten[i].name = Statements[i].name
                   /\ Rewritten[i].kind = "ClassDef"
                        => /\ Rewritten[i].body = Statements[i].body
                           /\ Rewritten[i].name = Statements[i].name]_vars

\* C23 witness: a rewrite that purged a has left the function f of an
\* earlier cell, which was submitted with a body of two lines, with a body
\* of a single no-op.
C23_Witness ==
    /\ rewrite = "done"
    /\ Len(mypy_cells) = 3
    /\ mypy_cells[1].kind = "FunctionDef" /\ mypy_cells[1].name = "f"
    /\ mypy_cells[1].body = "pass" /\ mypy_cells[1].frag = 1
    /\ FunctionDef("f").body = "full"
    /\ mypy_cells[2].kind = "Pass"
    /\ mypy_cells[3].frag = 3



\* The cell binds through attribute or subscript targets only.
MemberTargetsOnly(c) ==
    LET body == ast_parse(cell_filter_of(c))
    IN  /\ \E i \in 1..Len(body) : body[i].roots # {}
        /\ \A i \in 1..Len(body) :
              /\ body[i].targets = {}
              /\ body[i].kind \notin {"FunctionDef", "AsyncFunctionDef", "ClassDef"}

\* C24: a processed cell that binds through attribute or subscript targets
\* only leaves the three registries as they were and purges nothing, also
\* when the root of its target is registered: no rewrite, the cell is
\* appended; and when a later rewrite has the root of such a statement of
\* the buffer in its Variables purge set, the statement is a no-op
\* afterwards.
C24_MemberTargets ==
    [][/\ (ncells' = ncells + 1 /\ Eligible(cell') /\ MemberTargetsOnly(cell'))
            => /\ UNCHANGED << mypy_var_names, mypy_annotated_names,
                               mypy_classfunc_names >>
               /\ NoPurge(cell')
               /\ rewrite' = "none"
               /\ Appended
       /\ rewrite' = "done"
            => /\ Len(Rewritten) = Len(Statements)
               /\ \A i \in 1..Len(Statements) :
                     (/\ Statements[i].kind = "Assign"
                      /\ Statements[i].targets = {}
                      /\ Statements[i].roots \intersect PurgeSets(cell')[1] # {})
                        => Rewritten[i].kind = "Pass"]_vars

\* C24 witness: a cell assigning to a member of a, with a registered as a
\* variable, has been processed without a rewrite and is the end of the
\* buffer, and a is registered as before.
C24_Witness ==
    /\ path = "checked"
    /\ rewrite = "none"
    /\ cell = << BlankLine, AttrAssignStmt("a") >>
    /\ mypy_var_names = {"a"}
    /\ mypy_annotated_names = {} /\ mypy_classfunc_names = {}
    /\ Len(mypy_cells) = 3
    /\ mypy_cells[1] = [AssignStmt({"a"}) EXCEPT !.frag = 1]
    /\ mypy_cells[3] = [AttrAssignStmt("a") EXCEPT !.frag = 2]



\* ------------------------------------ the startup scripts wrapping run_cell

\* typecheck.py and nb-mypy.py replace the host's run_cell by their mypy_tmp.
Scripts == {"typecheck.py", "nb-mypy.py"}

\* The line nb-mypy.py starts its buffer with.
ImportLine == Item("Import", {}, {}, "", 1, "none", FALSE)

\* The cells given to the wrapped run_cell.
CellsWrap ==
    { << AssignStmt({"a"}) >>,
      << FStringAssign("f"), AssignStmt({"a"}) >>,
      << FunctionDef("f") >>,
      << MatchStmt, AssignStmt({"a"}) >>,
      << BadLine >>,
      << CellMagicLine, ExprStmt >> }

\* The state a startup script leaves: typecheck.py starts with checking on
\* and an empty buffer, nb-mypy.py with checking off and its import line.
InitWrap ==
    /\ script \in Scripts
    /\ mypy_cells = IF script = "nb-mypy.py" THEN << ImportLine >> ELSE << >>
    /\ mypy_names = {}
    /\ mypy_var_names = {}
    /\ mypy_annotated_names = {}
    /\ mypy_classfunc_names = {}
    /\ mypy_typecheck = (script = "typecheck.py")
    /\ debug = FALSE
    /\ additional_args = << >>
    /\ ncells = 0
    /\ cell = << >>
    /\ path = "loaded"
    /\ rewrite = "none"
    /\ mypy_cells_length = 0
    /\ api_runs = << >>
    /\ mypy_result = NoResult
    /\ log = << Record("info", "Version") >>
    /\ executed = << >>
    /\ magic_line = << >>
    /\ subscribed = FALSE
    /\ host_runs = << >>
    /\ api = "any"
    /\ arg = << >>
    /\ ret = NoReturn

\* What mypy_tmp_func(cell, *args, **kwargs), the run_cell that was wrapped,
\* returns for a cell.
mypy_tmp_func(c) == [by |-> "run_cell", cell |-> c]

\* ExecutionResult(e), made by typecheck.py for the SyntaxError of a cell.
ExecutionResult(c) == [by |-> "mypy_tmp", cell |-> c]

\* mypy_tmp returns value, having handed the cells of runs to the wrapped
\* run_cell, without having changed the checker.
WrapReturn(where, records, runs, value) ==
    /\ path' = where
    /\ log' = records
    /\ rewrite' = "none"
    /\ mypy_cells_length' = 0
    /\ api_runs' = << >>
    /\ mypy_result' = NoResult
    /\ host_runs' = runs
    /\ ret' = [done |-> TRUE, value |-> value]
    /\ UNCHANGED << checker, mypy_names, mypy_typecheck, debug >>

\* mypy_tmp from the append on: the cell is appended to cells, mypy is
\* called and its output is logged; the registries become names, var,
\* annotated and classfunc.
WrapCheck(c, cells, rewritten, names, var, annotated, classfunc) ==
    LET offset == length_of(cells)
        program == cells \o Tagged(cell_filter_of(c), ncells + 1)
        before == IfDebug(<< Record("debug", "Program before typechecking") >>)
    IN  \E res \in api_run(program) :
          /\ mypy_cells' = program
          /\ mypy_names' = names
          /\ mypy_var_names' = var
          /\ mypy_annotated_names' = annotated
          /\ mypy_classfunc_names' = classfunc
          /\ rewrite' = IF rewritten THEN "done" ELSE "none"
          /\ mypy_cells_length' = offset
          /\ api_runs' = << [args |-> BaselineArgs, program |-> program] >>
          /\ mypy_result' = res
          /\ log' = IF res.raised THEN before \o ExceptionHandler
                    ELSE before \o emitted(res.out, offset)
                         \o (IF res.err THEN << Record("error", "stderr") >>
                             ELSE << >>)
          /\ path' = IF res.raised THEN "raised" ELSE "checked"
          /\ host_runs' = << c >>
          /\ ret' = [done |-> TRUE, value |-> mypy_tmp_func(c)]
          /\ UNCHANGED << mypy_typecheck, debug, additional_args >>

\* NamesLister of typecheck.py: one set for the names of all categories.
names_of(body, replace) ==
    LET n == NamesLister(body, replace)
    IN  n.var_names \union n.annotated_names \union n.classfunc_names

\* Replacer(known).visit of typecheck.py on one statement: a statement that
\* binds a known name becomes a no-op, any other is left whole.
Replacer_known(node, known) ==
    IF names_of(<< node >>, TRUE) \intersect known # {} THEN Pass(node)
    ELSE node

\* mypy_tmp of typecheck.py
typecheck_mypy_tmp(c) ==
    LET cell_filter == cell_filter_of(c)
        newnames == names_of(ast_parse(cell_filter), FALSE)
        remove == newnames \intersect mypy_names
        R(st) == Replacer_known(st, remove)
        tree == MapSeq(R, ast_parse(mypy_cells))
    IN  IF ~mypy_typecheck
        THEN WrapReturn("off", << >>, << c >>, mypy_tmp_func(c))
        ELSE IF is_cell_magic(c)
        THEN WrapReturn("cell_magic", << >>, << c >>, mypy_tmp_func(c))
        ELSE IF SyntaxError(cell_filter)
        THEN WrapReturn("syntax_error", << >>, << >>, ExecutionResult(c))
        ELSE IF remove # {} /\ SyntaxError(mypy_cells)
        THEN WrapReturn("abandoned",
                        IfDebug(<< Record("debug", "Program before typechecking") >>),
                        << c >>, mypy_tmp_func(c))
        ELSE IF remove # {} /\ to_source_raises(tree)
        THEN WrapReturn("raised", ExceptionHandler, << c >>, mypy_tmp_func(c))
        ELSE WrapCheck(c, IF remove # {} THEN to_source(tree) ELSE mypy_cells,
                       remove # {}, mypy_names \union newnames,
                       mypy_var_names, mypy_annotated_names,
                       mypy_classfunc_names)

\* mypy_tmp of nb-mypy.py: the wrapped run_cell is called first.
nb_mypy_mypy_tmp(c) ==
    LET result == mypy_tmp_func(c)
        cell_filter == cell_filter_of(c)
        h == clean_history(NamesLister(ast_parse(cell_filter), FALSE))
    IN  IF ~mypy_typecheck
        THEN WrapReturn("off", << >>, << c >>, result)
        ELSE IF is_cell_magic(c)
        THEN WrapReturn("cell_magic", << >>, << c >>, result)
        ELSE IF SyntaxError(cell_filter)
        THEN WrapReturn("syntax_error", << >>, << c >>, result)
        ELSE IF h.rewrite = "abandoned"
        THEN WrapReturn("abandoned",
                        IfDebug(<< Record("debug", "Program before typechecking") >>),
                        << c >>, result)
        ELSE IF h.rewrite = "raised"
        THEN WrapReturn("raised", ExceptionHandler, << c >>, result)
        ELSE WrapCheck(c, h.cells, h.rewrite = "done", mypy_names,
                       h.var_names, h.annotated_names, h.classfunc_names)

\* The host's run_cell, replaced by mypy_tmp of typecheck.py, is called.
typecheck_run_cell ==
    /\ script = "typecheck.py"
    /\ ncells < MaxCells
    /\ \E c \in CellsWrap :
          /\ ncells' = ncells + 1
          /\ cell' = c
          /\ typecheck_mypy_tmp(c)
          /\ UNCHANGED << executed, magic_line, api, arg, subscribed, script >>

\* The host's run_cell, replaced by mypy_tmp of nb-mypy.py, is called.
nb_mypy_run_cell ==
    /\ script = "nb-mypy.py"
    /\ ncells < MaxCells
    /\ \E c \in CellsWrap :
          /\ ncells' = ncells + 1
          /\ cell' = c
          /\ nb_mypy_mypy_tmp(c)
          /\ UNCHANGED << executed, magic_line, api, arg, subscribed, script >>

\* The line magics of typecheck.py
TurnMagics ==
    {"turnOffTyCheck", "turnOnTyCheck", "turnOnTyDebug", "turnOffTyDebug"}

\* One of the line magics of typecheck.py is run.
typecheck_magic ==
    /\ script = "typecheck.py"
    /\ \E m \in TurnMagics :
          /\ mypy_typecheck' =
                CASE m = "turnOnTyCheck" -> TRUE
                  [] m = "turnOffTyCheck" -> FALSE
                  [] OTHER -> mypy_typecheck
          /\ debug' =
                CASE m = "turnOnTyDebug" -> TRUE
                  [] m = "turnOffTyDebug" -> FALSE
                  [] OTHER -> debug
    /\ path' = "magic"
    /\ log' = << >>
    /\ rewrite' = "none"
    /\ mypy_cells_length' = 0
    /\ api_runs' = << >>
    /\ mypy_result' = NoResult
    /\ UNCHANGED << checker, ncells, cell, executed, magic_line, api, arg,
                    ret, subscribed, wrapped >>

\* The lines given to %nb_mypy of nb-mypy.py
ScriptArguments ==
    { << >>, << "On" >>, << "Off" >>, << "DebugOn" >>, << "DebugOff" >>,
      << "on" >> }

\* The line magic nb_mypy of nb-mypy.py
nb_mypy_script ==
    /\ script = "nb-mypy.py"
    /\ nb_mypy_of(ScriptArguments, FALSE)

NextWrap ==
    typecheck_run_cell \/ nb_mypy_run_cell \/ typecheck_magic \/ nb_mypy_script

SpecWrap == InitWrap /\ [][NextWrap]_vars

\* C25: in both startup scripts every call of the wrapper hands the cell to
\* the wrapped run_cell exactly once and returns what that call returned, on
\* every path: checking off, cell magic, syntax error in the cell, history
\* that does not parse, a check that ran, an exception in the check.
C25_WrapperTransparency ==
    [][ncells' = ncells + 1
          => /\ host_runs' = << cell' >>
             /\ ret' = [done |-> TRUE, value |-> mypy_tmp_func(cell')]]_vars



\* The cell introduces every name in one category at most.
SingleCategory(c) ==
    LET new == NamesLister(ast_parse(cell_filter_of(c)), FALSE)
    IN  /\ new.classfunc_names \intersect new.var_names = {}
        /\ new.classfunc_names \intersect new.annotated_names = {}
        /\ new.var_names \intersect new.annotated_names = {}

\* C26: with cells that each introduce a name in one category at most, no
\* name is in Callables and at the same time in Variables or in
\* AnnotatedVariables.
C26_CallablesExclusive ==
    (\A c \in Cells : SingleCategory(c))
        => mypy_classfunc_names
              \intersect (mypy_var_names \union mypy_annotated_names) = {}

\* C26 witness: f, registered as a variable by the first cell together with
\* a, has been re-defined as a function by the second: it is in Callables
\* and no more in Variables.
C26_Witness ==
    /\ \A c \in Cells : SingleCategory(c)
    /\ ncells = 2
    /\ rewrite = "done"
    /\ cell = << FunctionDef("f") >>
    /\ mypy_cells[1].kind = "Pass"
    /\ mypy_var_names = {"a"}
    /\ mypy_annotated_names = {}
    /\ mypy_classfunc_names = {"f"}



\* C27: a cell that arrives while checking is off leaves the buffer, the
\* three registries and the extra flags as they were, calls mypy not at all
\* and logs nothing; and no step that starts or ends with checking off
\* (turning it off, cells and commands meanwhile, turning it on) changes the
\* buffer or a registry, so that they are after re-enabling what they were
\* before disabling.
C27_DisabledMeansFrozen ==
    [][/\ (ncells' = ncells + 1 /\ ~mypy_typecheck)
            => /\ UNCHANGED << checker, mypy_typecheck, debug >>
               /\ api_runs' = << >>
               /\ log' = << >>
               /\ path' = "off"
       /\ (~mypy_typecheck \/ ~mypy_typecheck')
            => UNCHANGED << mypy_cells, mypy_var_names, mypy_annotated_names,
                            mypy_classfunc_names >>]_vars

\* C27 witness: the second cell, a re-definition of a, arrived with checking
\* off: the buffer holds the first cell only and mypy was not called.
C27_Witness ==
    /\ path = "off"
    /\ ~mypy_typecheck
    /\ ncells = 2
    /\ cell = << AssignStmt({"a"}) >>
    /\ mypy_cells = << [AssignStmt({"a"}) EXCEPT !.frag = 1] >>
    /\ mypy_var_names = {"a"}
    /\ api_runs = << >>



CellsLifecycle == { << AssignStmt({"a"}) >>, << FunctionDef("f") >> }

LifecycleArguments ==
    { << "On" >>, << "Off" >>, << "DebugOn" >>,
      << "mypy-options", " ", "--strict" >> }

type_check_lifecycle ==
    /\ ncells < MaxCells
    /\ type_check_of(CellsLifecycle)

\* The line magic stays registered, and __NB_TYPECHECKER set, after an unload.
nb_mypy_lifecycle == nb_mypy_of(LifecycleArguments, FALSE)

\* unload_ipython_extension: type_check is unregistered.
unload_ipython_extension ==
    /\ subscribed
    /\ subscribed' = FALSE
    /\ path' = "unloaded"
    /\ log' = << >>
    /\ rewrite' = "none"
    /\ mypy_cells_length' = 0
    /\ api_runs' = << >>
    /\ mypy_result' = NoResult
    /\ UNCHANGED << checker, mypy_typecheck, debug, ncells, cell, executed,
                    magic_line, api, arg, ret, wrapped >>

\* Mutant of load_ipython_extension: the checker of the session before is
\* registered again.
load_ipython_extension_again ==
    /\ ~subscribed
    /\ subscribed' = TRUE
    /\ path' = "loaded"
    /\ log' = << Record("info", "Version") >>
    /\ rewrite' = "none"
    /\ mypy_cells_length' = 0
    /\ api_runs' = << >>
    /\ mypy_result' = NoResult
    /\ UNCHANGED << checker, mypy_typecheck, debug, ncells, cell, executed,
                    magic_line, api, arg, ret, wrapped >>

\* load_ipython_extension, called by the host for an extension that is not
\* loaded: a new MypyIPython() is made, its version is logged and its
\* type_check is registered.
load_ipython_extension ==
    /\ ~subscribed
    /\ subscribed' = TRUE
    /\ mypy_cells' = << >>
    /\ mypy_var_names' = {}
    /\ mypy_annotated_names' = {}
    /\ mypy_classfunc_names' = {}
    /\ mypy_typecheck' = TRUE
    /\ debug' = FALSE
    /\ additional_args' = << >>
    /\ path' = "loaded"
    /\ log' = << Record("info", "Version") >>
    /\ rewrite' = "none"
    /\ mypy_cells_length' = 0
    /\ api_runs' = << >>
    /\ mypy_result' = NoResult
    /\ UNCHANGED << ncells, cell, executed, magic_line, api, arg, ret, wrapped >>

NextLifecycle ==
    \/ type_check_lifecycle
    \/ nb_mypy_lifecycle
    \/ unload_ipython_extension
    \/ load_ipython_extension

SpecLifecycle == Init /\ [][NextLifecycle]_vars

\* The checker is as MypyIPython() makes it.
Fresh ==
    /\ mypy_cells = << >>
    /\ mypy_var_names = {}
    /\ mypy_annotated_names = {}
    /\ mypy_classfunc_names = {}
    /\ mypy_typecheck = TRUE
    /\ debug = FALSE
    /\ additional_args = << >>

\* C29: the first load leaves a fresh checker that is registered for the
\* pre_run_cell event; every later load does the same, whatever the session
\* before left; an unload takes the registration away and changes nothing
\* of the checker, and a cell that arrives while nothing is registered
\* calls mypy not at all, logs nothing and leaves the checker as it is.
C29_SessionLifecycle ==
    /\ Fresh
    /\ subscribed = TRUE
    /\ [][/\ (~subscribed /\ subscribed') => Fresh'
          /\ (subscribed /\ ~subscribed')
                => UNCHANGED << checker, mypy_typecheck, debug >>
          /\ (ncells' = ncells + 1 /\ ~subscribed)
                => /\ UNCHANGED << checker, mypy_typecheck, debug, subscribed >>
                   /\ api_runs' = << >>
                   /\ log' = << >>
          /\ (ncells' = ncells + 1 /\ subscribed /\ mypy_typecheck)
                => Len(api_runs') = 1]_vars

\* C29 witness: after a cell was checked the extension was unloaded with
\* debug on; the next cell, a re-definition of a, was not checked: the
\* buffer holds the first cell only.
C29_Witness ==
    /\ ~subscribed
    /\ path = "unsubscribed"
    /\ ncells = 2
    /\ cell = << AssignStmt({"a"}) >>
    /\ mypy_cells = << [AssignStmt({"a"}) EXCEPT !.frag = 1] >>
    /\ mypy_var_names = {"a"}
    /\ debug
    /\ api_runs = << >>

====
